---- MODULE Spec2Model ----
(***************************************************************************)
(* A model of the cap-height module (sebdesign/cap-height).                *)
(*                                                                         *)
(* The module measures the cap height of a font: it paints a text on an    *)
(* offscreen canvas, reads the pixels back, finds the first and the last   *)
(* row holding a non-white channel value and divides the row span by the   *)
(* font size.  The model follows release 2.0.0 (src/unnamed/part_002);     *)
(* definitions ending in _v1 follow release 1.1.0 (src/unnamed/part_000).  *)
(*                                                                         *)
(* JavaScript values are tagged tuples: <<"str", chars>>, <<"num", n, d>>  *)
(* (the rational n/d), <<"undefined">>, <<"null">>, <<"element", id>> and  *)
(* <<"object">>.  A string is the sequence of its characters.  An object   *)
(* with string keys is a function from its keys to values.                 *)
(***************************************************************************)
EXTENDS Integers, Sequences, FiniteSets, TLC

VARIABLES
  DPR,        \* window.devicePixelRatio, read once when the module loads
  backend,    \* how the host's canvas paints text (see Backends)
  container,  \* the module-level container reference
  defaults,   \* the module-level defaults record
  children,   \* per DOM element: the canvases appended to it, in order
  ncanvas,    \* the number of canvases created so far
  ncalls,     \* the number of measuring calls made so far
  last,       \* the last measuring call: what it was given, did and returned
  fsIn,       \* getFontSize on its own: the properties record given
  fsOut,      \* getFontSize on its own: its outcome
  scanIn,     \* the scanner on its own: the pixel data and its row width
  scanOut     \* the scanner on its own: ascent, descent and height

vars == <<DPR, backend, container, defaults, children, ncanvas, ncalls, last,
          fsIn, fsOut, scanIn, scanOut>>

----------------------------------------------------------------------------
(* JavaScript values *)

Undefined == <<"undefined">>
Null == <<"null">>
Str(s) == <<"str", s>>
Num(n) == <<"num", n, 1>>
Element(id) == <<"element", id>>
PlainObject == <<"object">>

IsStr(v) == v[1] = "str"
IsNum(v) == v[1] = "num"

Digits == <<"0", "1", "2", "3", "4", "5", "6", "7", "8", "9">>

IsDigit(c) == \E i \in 1..10 : Digits[i] = c

DigitVal(c) == (CHOOSE i \in 1..10 : Digits[i] = c) - 1

RECURSIVE DecVal(_)
\* The number a sequence of decimal digits writes; 0 for the empty sequence.
DecVal(s) ==
  IF s = <<>> THEN 0
  ELSE 10 * DecVal(SubSeq(s, 1, Len(s) - 1)) + DigitVal(s[Len(s)])

RECURSIVE DecStr(_)
\* The decimal digits of a natural number.
DecStr(n) ==
  IF n < 10 THEN <<Digits[n + 1]>>
  ELSE DecStr(n \div 10) \o <<Digits[(n % 10) + 1]>>

\* String(value), as lodash's toString does it for the values of the model.
ToStr(v) ==
  IF IsStr(v) THEN v[2]
  ELSE IF IsNum(v) THEN DecStr(v[2])
  ELSE <<>>

RECURSIVE Gcd(_, _)
Gcd(a, b) == IF b = 0 THEN a ELSE Gcd(b, a % b)

Abs(n) == IF n < 0 THEN -n ELSE n

\* The rational n/d in lowest terms, d > 0.
Rat(n, d) ==
  LET g == Gcd(Abs(n), Abs(d))
      s == IF d < 0 THEN -1 ELSE 1
  IN <<"num", (s * n) \div g, (s * d) \div g>>

\* a / b for two numbers, b # 0.
NumDiv(a, b) == Rat(a[2] * b[3], a[3] * b[2])

----------------------------------------------------------------------------
(* Strings of the program *)

S_normal == <<"n", "o", "r", "m", "a", "l">>
S_italic == <<"i", "t", "a", "l", "i", "c">>
S_serif == <<"s", "e", "r", "i", "f">>
S_Arial == <<"A", "r", "i", "a", "l">>
S_100px == <<"1", "0", "0", "p", "x">>
S_H == <<"H">>
S_white == <<"w", "h", "i", "t", "e">>
S_black == <<"b", "l", "a", "c", "k">>
S_marker == <<"r", "g", "b", "a", "(", "2", "5", "5", ",", " ", "8", "5",
              ",", " ", "5", "1", ",", " ", ".", "1", ")">>
S_center == <<"c", "e", "n", "t", "e", "r">>
S_middle == <<"m", "i", "d", "d", "l", "e">>
S_canvasFont == <<"1", "0", "p", "x", " ", "s", "a", "n", "s", "-", "s",
                  "e", "r", "i", "f">>

\* The characters /\s/ matches, among the characters of the model.
WhitespaceChars == {" ", "\t", "\n"}

\* The key of the ratio field.
RatioKey == "--cap-height"

\* The keys of the defaults record, in its order.
RecognizedKeys == <<"font-style", "font-weight", "font-size", "font-family">>

----------------------------------------------------------------------------
(* Errors *)

NoError == [name |-> "", message |-> ""]

InvalidFontSizeError ==
  [name |-> "RangeError",
   message |-> "Cannot calculate the height of the text with invalid font-size."]

ZeroFontSizeError ==
  [name |-> "RangeError",
   message |-> "Cannot calculate the height of the text with font-size: 0."]

WhitespaceError ==
  [name |-> "RangeError",
   message |-> "Cannot calculate the height of whitespace."]

\* CanvasRenderingContext2D.getImageData on a rectangle of width or height 0.
IndexSizeError == [name |-> "IndexSizeError", message |-> "The source width is 0."]

\* CanvasRenderingContext2D.getImageData on a width or height that is not a
\* finite number, in a host that refuses one.
NonFiniteError ==
  [name |-> "TypeError", message |-> "The provided value is non-finite."]

----------------------------------------------------------------------------
(* Constants of the module *)

\* The threshold to determine non-white pixels: 0.75.
THRESHOLD == Rat(75, 100)

\* The margin to apply between canvases.
CANVAS_MARGIN == 10

\* Canvas size / font-size ratio.
MULTIPLIER == 2

\* The default font properties.
DefaultProperties ==
  ("font-style" :> Str(S_normal)) @@ ("font-weight" :> Num(400)) @@
  ("font-size" :> Str(S_100px)) @@ ("font-family" :> Str(S_serif))

----------------------------------------------------------------------------
(* lodash *)

\* A faulty _.defaults that lets the source win, as _.assign does.
lodashDefaultsSourceWins(object, source) ==
  [k \in (DOMAIN object) \cup (DOMAIN source) |->
     IF k \in DOMAIN source THEN source[k] ELSE object[k]]

\* _.defaults(object, source): the keys of source that object leaves
\* undefined are filled from source; object is changed in place.
lodashDefaults(object, source) ==
  [k \in (DOMAIN object) \cup (DOMAIN source) |->
     IF k \in DOMAIN object /\ (object[k] # Undefined \/ k \notin DOMAIN source)
     THEN object[k]
     ELSE source[k]]

\* _.assign(object, source): every key of source is written to object.
lodashAssign(object, source) ==
  [k \in (DOMAIN object) \cup (DOMAIN source) |->
     IF k \in DOMAIN source THEN source[k] ELSE object[k]]

\* _.get(object, key, defaultValue).
lodashGet(object, key, defaultValue) ==
  IF key \in DOMAIN object /\ object[key] # Undefined THEN object[key] ELSE defaultValue

\* A faulty replace that strips nothing.
replaceNothing(v) == Str(ToStr(v))

\* _.replace(value, /\D/g, ''): the digits of String(value).
replaceNonDigits(v) == Str(SelectSeq(ToStr(v), IsDigit))

NaN == <<"NaN">>

\* _.toNumber of a string: +value, the empty string giving 0.
toNumber(v) ==
  IF \A i \in 1..Len(v[2]) : IsDigit(v[2][i]) THEN Num(DecVal(v[2])) ELSE NaN

isNaN(v) == v = NaN

----------------------------------------------------------------------------
(* The canvas of the host *)

(***************************************************************************)
(* A backend is how the host paints text.  With the font at s pixels and   *)
(* the text drawn at the logical point (x, y), center aligned on the       *)
(* middle baseline, the ink covers the logical rows                        *)
(*   y - (s * up) \div 2 .. y + (s * down) \div 2 - 1                       *)
(* with the channel value shade (0 is black, larger values are the grey of *)
(* anti-aliased ink).  emPx is the pixel size of 1em for a canvas, and     *)
(* defaultPx the size of the font a context keeps when it is assigned a    *)
(* shorthand it cannot parse.  Handed a width or height that is NaN,        *)
(* getImageData takes it for 0 in the hosts where nonFinite is "zero" and  *)
(* refuses it with a TypeError where it is "refused".                      *)
(***************************************************************************)
Backends ==
  { [up |-> 1, down |-> 1, shade |-> 0,   emPx |-> 16, defaultPx |-> 10,
     nonFinite |-> "zero"],
    [up |-> 2, down |-> 1, shade |-> 128, emPx |-> 10, defaultPx |-> 10,
     nonFinite |-> "refused"] }

RECURSIVE SplitSpaces(_)
\* The words of a string, split at single spaces.
SplitSpaces(s) ==
  IF \A i \in 1..Len(s) : s[i] # " " THEN <<s>>
  ELSE LET i == CHOOSE i \in 1..Len(s) :
                  s[i] = " " /\ \A j \in 1..(i - 1) : s[j] # " "
       IN <<SubSeq(s, 1, i - 1)>> \o SplitSpaces(SubSeq(s, i + 1, Len(s)))

\* The leading digits of a string.
LeadingDigits(s) ==
  LET n == IF \A i \in 1..Len(s) : IsDigit(s[i]) THEN Len(s)
           ELSE (CHOOSE i \in 1..Len(s) :
                   ~IsDigit(s[i]) /\ \A j \in 1..(i - 1) : IsDigit(s[j])) - 1
  IN SubSeq(s, 1, n)

\* The pixel size a font-size word stands for, given its leading digits:
\* <digits>px is that many pixels, <digits>em is relative to the canvas.
SizePx(size, digits, bk) ==
  IF digits = <<>> THEN bk.defaultPx
  ELSE IF SubSeq(size, Len(digits) + 1, Len(size)) = <<"p", "x">>
  THEN DecVal(digits)
  ELSE IF SubSeq(size, Len(digits) + 1, Len(size)) = <<"e", "m">>
  THEN DecVal(digits) * bk.emPx
  ELSE bk.defaultPx

\* The size word is the third of the four words "style weight size family".
WordsPx(words, bk) ==
  IF Len(words) # 4 THEN bk.defaultPx
  ELSE SizePx(words[3], LeadingDigits(words[3]), bk)

\* The pixel size of the font a context draws with after it was assigned
\* the shorthand `font`; a shorthand the canvas cannot parse leaves the
\* default font.
FontPx(font, bk) == WordsPx(SplitSpaces(font), bk)

\* What the width or the height of a canvas becomes when it is assigned a
\* number: an unsigned long, 0 for NaN.
ToUnsignedLong(v) == IF IsNum(v) THEN v[2] \div v[3] ELSE 0

\* document.createElement('canvas') with its width and height assigned.
NewCanvas(width, height, style, bk) ==
  [width |-> ToUnsignedLong(width), height |-> ToUnsignedLong(height),
   style |-> style, backend |-> bk]

\* canvas.getContext('2d'): nothing drawn, unit transform.
NewContext(canvas) ==
  [canvas |-> canvas, scale |-> 1, fillStyle |-> Str(<<"#", "0", "0", "0">>),
   font |-> Str(S_canvasFont), fontPx |-> canvas.backend.defaultPx,
   textAlign |-> Str(<<"s", "t", "a", "r", "t">>),
   textBaseline |-> Str(<<"a", "l", "p", "h", "a", "b", "e", "t", "i", "c">>),
   ops |-> <<>>]

\* context.scale(x, x); an x that is not a finite number leaves the
\* transform as it is.
ctxScale(context, x) ==
  [context EXCEPT !.scale = IF IsNum(x) THEN @ * x[2] ELSE @,
                  !.ops = Append(@, [op |-> "scale", by |-> x])]

\* context.fillRect(x, y, width, height); the arguments are numbers.
ctxFillRect(context, x, y, width, height) ==
  [context EXCEPT !.ops = Append(@,
     [op |-> "fillRect", x |-> x, y |-> y, width |-> width, height |-> height,
      fillStyle |-> context.fillStyle, scale |-> context.scale])]

\* context.fillText(text, x, y)
ctxFillText(context, text, x, y) ==
  [context EXCEPT !.ops = Append(@,
     [op |-> "fillText", text |-> text, x |-> x, y |-> y,
      font |-> context.font, fontPx |-> context.fontPx,
      fillStyle |-> context.fillStyle,
      textAlign |-> context.textAlign, textBaseline |-> context.textBaseline,
      scale |-> context.scale])]

\* Whether the canvas can parse the words as "style weight size family",
\* the size a number of px or of em.
FontParses(words) ==
  /\ Len(words) = 4
  /\ LeadingDigits(words[3]) # <<>>
  /\ SubSeq(words[3], Len(LeadingDigits(words[3])) + 1, Len(words[3]))
       \in {<<"p", "x">>, <<"e", "m">>}

\* context.font = value: a value the canvas cannot parse is ignored, and the
\* context keeps the font it had.
ctxSetFont(context, value) ==
  IF FontParses(SplitSpaces(ToStr(value)))
  THEN [context EXCEPT !.font = value,
                       !.fontPx = FontPx(ToStr(value), context.canvas.backend)]
  ELSE context

\* The least integer not below a number.
Ceil(a) == -((-a[2]) \div a[3])

\* What a paint operation leaves on the canvas: the physical pixels
\* x0..x1, y0..y1 and their colour.  A rectangle drawn at (x, y) under the
\* scale k covers the pixels px with x * k <= px < (x + width) * k; the ink
\* of a text covers the pixels whose logical row and column lie in its box.
Painted(o, bk) ==
  IF o.op = "fillRect" THEN
    [x0 |-> Ceil(Rat(o.x[2] * o.scale, o.x[3])),
     x1 |-> Ceil(Rat((o.x[2] * o.width[3] + o.width[2] * o.x[3]) * o.scale,
                     o.x[3] * o.width[3])) - 1,
     y0 |-> Ceil(Rat(o.y[2] * o.scale, o.y[3])),
     y1 |-> Ceil(Rat((o.y[2] * o.height[3] + o.height[2] * o.y[3]) * o.scale,
                     o.y[3] * o.height[3])) - 1,
     rgba |-> IF o.fillStyle = Str(S_white) THEN <<255, 255, 255, 255>>
              ELSE IF o.fillStyle = Str(S_black) THEN <<0, 0, 0, 255>>
              ELSE <<255, 85, 51, 26>>]
  ELSE IF o.op = "fillText" THEN
    LET s == o.fontPx
        n == Len(o.text[2])
        x == o.x[2] \div o.x[3]
        y == o.y[2] \div o.y[3]
    IN [x0 |-> (x - (s * n + 1) \div 2) * o.scale,
        x1 |-> (x + (s * n + 1) \div 2) * o.scale - 1,
        y0 |-> (y - (s * bk.up) \div 2) * o.scale,
        y1 |-> (y + (s * bk.down) \div 2) * o.scale - 1,
        rgba |-> <<bk.shade, bk.shade, bk.shade, 255>>]
  ELSE [x0 |-> 0, x1 |-> -1, y0 |-> 0, y1 |-> -1, rgba |-> <<0, 0, 0, 0>>]

\* The colour a painted colour gives over the colour under it: opaque
\* colours replace it, rgba(255, 85, 51, .1) is blended one part in ten.
Over(rgba, under) ==
  IF rgba[4] = 255 THEN rgba
  ELSE <<(rgba[1] + 9 * under[1] + 5) \div 10, (rgba[2] + 9 * under[2] + 5) \div 10,
         (rgba[3] + 9 * under[3] + 5) \div 10, under[4]>>

RECURSIVE PixelAfter(_, _, _, _)
\* The RGBA value of the physical pixel (px, py) after the first n painted
\* shapes; a new canvas is transparent black.
PixelAfter(shapes, n, px, py) ==
  IF n = 0 THEN <<0, 0, 0, 0>>
  ELSE IF /\ shapes[n].y0 <= py /\ py <= shapes[n].y1
          /\ shapes[n].x0 <= px /\ px <= shapes[n].x1
       THEN Over(shapes[n].rgba, PixelAfter(shapes, n - 1, px, py))
       ELSE PixelAfter(shapes, n - 1, px, py)

\* What getImageData raises for a width or height that is NaN.
NonFiniteRefusal(bk) ==
  IF bk.nonFinite = "zero" THEN IndexSizeError ELSE NonFiniteError

\* context.getImageData(0, 0, width, height): the data array is kept as the
\* shapes it is read from; a rectangle of width or height 0 is refused, and
\* so is one whose width or height is NaN.
ctxGetImageData(context, width, height) ==
  IF ~IsNum(width) \/ ~IsNum(height)
  THEN [error |-> NonFiniteRefusal(context.canvas.backend), kind |-> "image",
        length |-> 0, width |-> 0, shapes |-> <<>>]
  ELSE IF width[2] = 0 \/ height[2] = 0
  THEN [error |-> IndexSizeError, kind |-> "image", length |-> 0, width |-> 0,
        shapes |-> <<>>]
  ELSE [error |-> NoError, kind |-> "image",
        length |-> width[2] * height[2] * 4, width |-> width[2],
        shapes |-> [i \in 1..Len(context.ops) |->
                      Painted(context.ops[i], context.canvas.backend)]]

\* A Uint8ClampedArray given by its values.
ArrayData(values) ==
  [error |-> NoError, kind |-> "array", length |-> Len(values), data |-> values]

\* pixelData[i], i from 0.
At(pixelData, i) ==
  IF pixelData.kind = "array" THEN pixelData.data[i + 1]
  ELSE PixelAfter(pixelData.shapes, Len(pixelData.shapes),
                  (i \div 4) % pixelData.width,
                  (i \div 4) \div pixelData.width)[(i % 4) + 1]

\* The values of a Uint8ClampedArray.
ChannelValues == 0..255

\* _.findIndex(array, predicate): the first index whose value satisfies the
\* predicate, -1 when there is none (the index `length` stands for none).
findIndex(pixelData, predicate) ==
  LET n == pixelData.length
      i == CHOOSE i \in 0..n :
             /\ i < n => predicate[At(pixelData, i)]
             /\ \A j \in 0..(i - 1) : ~predicate[At(pixelData, j)]
  IN IF i = n THEN -1 ELSE i

\* _.findLastIndex(array, predicate): the last such index, -1 when none.
findLastIndex(pixelData, predicate) ==
  LET n == pixelData.length
      k == CHOOSE k \in 1..(n + 1) :
             /\ k <= n => predicate[At(pixelData, n - k)]
             /\ \A j \in 1..(k - 1) : ~predicate[At(pixelData, n - j)]
  IN n - k

\* _.floor of a number.
Floor(a) == a[2] \div a[3]

----------------------------------------------------------------------------
(* The module: release 2.0.0 *)

\* Convert a physical pixel value to a CSS pixel: value / DPR.
toPx(value, dpr) == IF IsNum(dpr) THEN Rat(value, dpr[2]) ELSE NaN

\* Convert a CSS pixel to a physical pixel: value * DPR.
toDot(value, dpr) == IF IsNum(dpr) THEN Num(value * dpr[2]) ELSE NaN

\* A faulty isNotWhite that looks for the values above the threshold.
isNotWhiteAbove(value) == value * THRESHOLD[3] > 255 * THRESHOLD[2]

\* Check the given RGBA value is below the threshold: value < 255 * THRESHOLD.
isNotWhite(value) == value * THRESHOLD[3] < 255 * THRESHOLD[2]

\* A faulty getYPosition that forgets the four values of a pixel.
getYPositionPerValue(index, width) == Floor(NumDiv(Num(index), Num(width)))

\* Get the vertical position of the pixel data index, given the width:
\* _.floor((index / 4) / width).
getYPosition(index, width) == Floor(NumDiv(Rat(index, 4), Num(width)))

\* isNotWhite, as the predicate the scans are handed.
isNotWhiteOf == [value \in ChannelValues |-> isNotWhite(value)]

\* Forward scan the pixel data for the first non-white value.
getAscent(pixelData, width) ==
  getYPosition(findIndex(pixelData, isNotWhiteOf), width)

\* Reverse scan the pixel data for the last non-white value.
getDescent(pixelData, width) ==
  getYPosition(findLastIndex(pixelData, isNotWhiteOf), width)

\* A faulty getHeight that leaves the last row out.
getHeightExclusive(metrics) == metrics.descent - metrics.ascent

\* The height of the text with the given ascent and descent.
getHeight(metrics) == metrics.descent - metrics.ascent + 1

\* Get the pixel data of the context.
getPixelData(context, width, height) == ctxGetImageData(context, width, height)

\* Compose the font shorthand property:
\* _(properties).at('font-style', ...).join(' ').
composeFontProperty(properties) ==
  Str(ToStr(lodashGet(properties, "font-style", Undefined)) \o <<" ">> \o
      ToStr(lodashGet(properties, "font-weight", Undefined)) \o <<" ">> \o
      ToStr(lodashGet(properties, "font-size", Undefined)) \o <<" ">> \o
      ToStr(lodashGet(properties, "font-family", Undefined)))

\* A faulty drawContext that fills the background after it drew the text.
drawContextTextFirst(context, properties, dimensions, text) ==
  LET c1 == [ctxSetFont(context, composeFontProperty(properties))
               EXCEPT !.fillStyle = Str(S_black),
                      !.textAlign = Str(S_center),
                      !.textBaseline = Str(S_middle)]
      c2 == ctxFillText(c1, text, Rat(dimensions.width, 2), Rat(dimensions.height, 2))
  IN ctxFillRect([c2 EXCEPT !.fillStyle = Str(S_white)], Num(0), Num(0),
                 Num(dimensions.width), Num(dimensions.height))

\* Draw the background and the text in the canvas context.
drawContext(context, properties, dimensions, text) ==
  LET c1 == [context EXCEPT !.fillStyle = Str(S_white)]
      c2 == ctxFillRect(c1, Num(0), Num(0), Num(dimensions.width),
                        Num(dimensions.height))
      c3 == [ctxSetFont(c2, composeFontProperty(properties))
               EXCEPT !.fillStyle = Str(S_black),
                      !.textAlign = Str(S_center),
                      !.textBaseline = Str(S_middle)]
  IN ctxFillText(c3, text, Rat(dimensions.width, 2), Rat(dimensions.height, 2))

\* A faulty getContext that does not scale the context.
getContextUnscaled(canvas, dpr) == NewContext(canvas)

\* Get the scaled canvas drawing context.
getContext(canvas, dpr) == ctxScale(NewContext(canvas), dpr)

\* Create a canvas with the given dimensions: the physical dimensions are
\* its size, the CSS dimensions and the margin its style, in px.
createCanvas(dimensions, physicalDimensions, bk) ==
  NewCanvas(physicalDimensions.width, physicalDimensions.height,
            [width |-> DecStr(dimensions.width) \o <<"p", "x">>,
             height |-> DecStr(dimensions.height) \o <<"p", "x">>,
             margin |-> DecStr(CANVAS_MARGIN) \o <<"p", "x">>],
            bk)

\* _.isElement(value)
isElement(value) == value[1] = "element"

\* A faulty displayCanvas that never appends the canvas.
displayCanvasNever(cont) == FALSE

\* Append the given canvas to the container element: whether it is appended.
displayCanvas(cont) == isElement(cont)

\* The check getFontSize makes of the number: a RangeError when it is
\* NaN or 0.
checkFontSize(fontSize) ==
  IF isNaN(fontSize) THEN [error |-> InvalidFontSizeError, value |-> 0]
  ELSE IF fontSize = Num(0) THEN [error |-> ZeroFontSizeError, value |-> 0]
  ELSE [error |-> NoError, value |-> fontSize[2]]

\* Get the font-size as a unitless number: the digits of the font-size (of
\* 0 when there is none), as a number, checked.
getFontSize(properties) ==
  checkFontSize(toNumber(replaceNonDigits(lodashGet(properties, "font-size", Num(0)))))

----------------------------------------------------------------------------
(* Release 1.1.0: its getFontSize and its scanner *)

\* parseFloat of a string: the number its leading digits write, NaN when it
\* has none (the strings it is given here hold digits only).
parseFloat(v) ==
  IF LeadingDigits(v[2]) = <<>> THEN NaN ELSE Num(DecVal(LeadingDigits(v[2])))

\* Get the font-size as a number:
\* parseFloat(_.replace(_.get(properties, "font-size", 0), /\D/g, '')).
getFontSize_v1(properties) ==
  checkFontSize(parseFloat(replaceNonDigits(lodashGet(properties, "font-size", Num(0)))))

\* Check the given RGBA value is black: value === 0.
isBlack(value) == value = 0

\* Get the y of the pixel data index, given the x width:
\* _.floor(i / (width * 4)).
getYPosition_v1(i, width) == Floor(NumDiv(Num(i), Num(width * 4)))

\* isBlack, as the predicate the scans are handed.
isBlackOf == [value \in ChannelValues |-> isBlack(value)]

\* Forward scan the pixel data for the first black value.
getAscent_v1(pixelData, width) ==
  getYPosition_v1(findIndex(pixelData, isBlackOf), width)

\* Reverse scan the pixel data for the last black value.
getDescent_v1(pixelData, width) ==
  getYPosition_v1(findLastIndex(pixelData, isBlackOf), width)

\* The height of the text with the given ascent and descent.
getHeight_v1(descent, ascent) == descent + 1 - ascent

----------------------------------------------------------------------------
(* The scanner of release 1.0.0 *)

\* a | 0: the number without its fraction, as a 32-bit integer.  The row
\* indexes of the model are far inside the 32 bits, so nothing wraps.
ToInt32(a) ==
  IF a[2] >= 0 THEN a[2] \div a[3] ELSE -((-a[2]) \div a[3])

\* Check the given RGBA value is black: value === 0.
isBlack_v0(value) == value = 0

\* Get the y of the pixel data index, given the x width:
\* i / (width * 4) | 0.
getYPosition_v0(i, width) == ToInt32(NumDiv(Num(i), Num(width * 4)))

\* isBlack, as the predicate the scans are handed.
isBlackOf_v0 == [value \in ChannelValues |-> isBlack_v0(value)]

\* Forward scan the pixel data for the first black value.
getAscent_v0(pixelData, width) ==
  getYPosition_v0(findIndex(pixelData, isBlackOf_v0), width)

\* Reverse scan the pixel data for the last black value.
getDescent_v0(pixelData, width) ==
  getYPosition_v0(findLastIndex(pixelData, isBlackOf_v0), width)

\* The height of the text with the given ascent and descent.
getHeight_v0(descent, ascent) == descent + 1 - ascent

----------------------------------------------------------------------------
(* Bounds and inputs of the model *)

\* The device pixel ratios of the model are 1..MaxDPR.
MaxDPR == 2

\* The measuring calls of one behaviour.
MaxCalls == 2

S_2px == <<"2", "p", "x">>
S_1px == <<"1", "p", "x">>
S_0px == <<"0", "p", "x">>
S_abcpx == <<"a", "b", "c", "p", "x">>
S_2em == <<"2", "e", "m">>
S_700 == <<"7", "0", "0">>
S_400 == <<"4", "0", "0">>
S_red == <<"r", "e", "d">>

\* The texts the calls are given; Undefined is the absent argument.
Texts ==
  { Undefined, Str(<<>>), Str(S_H), Str(<<"H", "I">>), Str(<<" ">>),
    Str(<<"H", "\n">>) }

\* Records that give a font-size of a few pixels, or none that is valid.
SizedProperties ==
  { "font-size" :> Str(S_2px),
    ("font-size" :> Str(S_1px)) @@ ("font-family" :> Str(S_Arial)) @@
      ("color" :> Str(S_red)),
    "font-size" :> Str(S_0px),
    "font-size" :> Str(S_abcpx),
    "font-size" :> Str(S_2em),
    "font-size" :> Num(2),
    ("font-size" :> Str(S_2px)) @@ (RatioKey :> Num(5)),
    ("font-size" :> Str(S_2px)) @@ ("font-family" :> Undefined) }

\* Records that leave the font-size to the defaults.
UnsizedProperties ==
  { <<>>,
    ("font-style" :> Str(S_italic)) @@ ("font-weight" :> Str(S_700)) }

\* The arguments of calculate: at the default size, texts of one character.
CalcInputs ==
  (SizedProperties \X Texts) \cup
  (UnsizedProperties \X (Texts \ {Str(<<"H", "I">>)}))

\* What the font variation description decoder returns (the fvd package).
ParsedFvds ==
  { ("font-style" :> Str(S_italic)) @@ ("font-weight" :> Str(S_700)),
    ("font-style" :> Str(S_normal)) @@ ("font-weight" :> Str(S_400)) }

FamilyNames == {Str(S_Arial), Str(S_serif)}

\* The texts fontActive and inspect are given.
ListenerTexts == {Undefined, Str(S_H), Str(<<" ">>)}

\* What window.getComputedStyle returns for the inspected elements.
ComputedStyles ==
  { ("font-style" :> Str(S_normal)) @@ ("font-weight" :> Str(S_400)) @@
      ("font-size" :> Str(S_2px)) @@ ("font-family" :> Str(S_Arial)) @@
      ("color" :> Str(S_red)),
    ("font-style" :> Str(S_italic)) @@ ("font-weight" :> Str(S_700)) @@
      ("font-size" :> Str(S_1px)) @@ ("font-family" :> Str(S_serif)) @@
      ("color" :> Str(S_black)) }

\* The font-size values getFontSize is looked at with on its own are the
\* strings of at most MaxStrLen of these characters, and a few others.
MaxStrLen == 3

FontSizeChars == {"0", "1", "2", "p", ".", "-"}

FontSizeStrings ==
  UNION { [1..n -> FontSizeChars] : n \in 0..MaxStrLen } \cup
  {S_100px, S_abcpx, S_0px, S_2em}

\* The records getFontSize is given.
FontSizeInputs ==
  { <<>>, "font-family" :> Str(S_serif) } \cup
  { "font-size" :> v :
    v \in {Undefined, Num(0), Num(2), Num(100)} \cup
          { Str(chars) : chars \in FontSizeStrings } }

\* The pixel buffers the scanner is looked at with on its own have at most
\* MaxScanPixels pixels, each of one of these RGBA values: white, black, a
\* grey with one channel under 255 * 0.75 = 191.25, a grey above it.
MaxScanPixels == 6

PixelKinds ==
  { <<255, 255, 255, 255>>, <<0, 0, 0, 255>>, <<192, 191, 192, 255>>,
    <<192, 192, 192, 255>>, <<255, 255, 255, 0>> }

\* The data array of an image of the given pixels, row after row.
DataOf(pixels) ==
  [i \in 1..(4 * Len(pixels)) |-> pixels[((i - 1) \div 4) + 1][((i - 1) % 4) + 1]]

\* The buffers and row widths getAscent and getDescent are given.
ScanInputs ==
  { [pixelData |-> ArrayData(DataOf(in[2])), width |-> in[1][1]] :
    in \in { x \in ((1..MaxScanPixels) \X (1..MaxScanPixels)) \X
                   UNION { [1..n -> PixelKinds] : n \in 1..MaxScanPixels } :
             x[1][1] * x[1][2] = Len(x[2]) } }

\* The DOM elements of the page.
Elements == {"body", "div"}

\* What setContainer is given.
ContainerValues ==
  {Undefined, Null, PlainObject} \cup {Element(e) : e \in Elements}

----------------------------------------------------------------------------
(* measureTextHeight and calculate *)

\* A faulty test that looks at the first character only, as /^\s/ does.
hasLeadingWhitespace(text) ==
  Len(text[2]) > 0 /\ text[2][1] \in WhitespaceChars

\* /\s/.test(text)
hasWhitespace(text) == \E i \in 1..Len(text[2]) : text[2][i] \in WhitespaceChars

\* The physical pixel dimensions measureTextHeight sets:
\* _.mapValues(dimensions, toDot).
PhysicalDimensions(text, fontSize, dpr) ==
  [width |-> toDot(MULTIPLIER * fontSize * Len(text[2]), dpr),
   height |-> toDot(MULTIPLIER * fontSize, dpr)]

\* The context measureTextHeight has drawn on when it reads the pixels.
DrawnContext(text, properties, fontSize, dpr, bk) ==
  LET base == MULTIPLIER * fontSize
      dimensions == [width |-> base * Len(text[2]), height |-> base]
      canvas == createCanvas(dimensions,
                             PhysicalDimensions(text, fontSize, dpr), bk)
  IN drawContext(getContext(canvas, dpr), properties, dimensions, text)

\* _.set(object, key, value)
lodashSet(object, key, value) == lodashAssign(object, key :> value)

\* _.pick(object, keys)
lodashPick(object, keys) ==
  [k \in {keys[i] : i \in 1..Len(keys)} \cap DOMAIN object |-> object[k]]

\* The properties and texts the calls of the model measure: each picture is
\* scanned once and the scans are kept.
Measured ==
  { <<lodashDefaults(in[1], DefaultProperties),
      IF in[2] = Undefined THEN Str(S_H) ELSE in[2]>> :
    in \in CalcInputs \cup
           { <<lodashSet(f[1], "font-family", f[2]), f[3]>> :
             f \in ParsedFvds \X FamilyNames \X ListenerTexts } \cup
           { <<lodashPick(c[1], RecognizedKeys), c[2]>> :
             c \in ComputedStyles \X ListenerTexts } }

\* The pixel data measureTextHeight reads from a drawn context, with the
\* row width it scans them by.
PictureOf(context) ==
  <<getPixelData(context, Num(context.canvas.width),
                Num(context.canvas.height)),
    context.canvas.width>>

Pictures ==
  { PictureOf(DrawnContext(k[1][2], k[1][1], getFontSize(k[1][1]).value, k[2], k[3])) :
    k \in { m \in Measured : /\ getFontSize(m[1]).error = NoError
                             /\ ~hasWhitespace(m[2])
                             /\ Len(m[2][2]) > 0 }
          \X {Num(d) : d \in 1..MaxDPR} \X Backends }

ScanCache ==
  [k \in Pictures |->
     [ascent |-> getAscent(k[1], k[2]), descent |-> getDescent(k[1], k[2])]]

\* The scan of a picture: the kept one, or made now.
Scan(cache, pixelData, width) ==
  IF <<pixelData, width>> \in DOMAIN cache THEN cache[<<pixelData, width>>]
  ELSE [ascent |-> getAscent(pixelData, width),
        descent |-> getDescent(pixelData, width)]

\* The metrics of the pixel data read; raises what getImageData raised.
metricsOf(pixelData, width) ==
  IF pixelData.error # NoError
  THEN [error |-> pixelData.error, ascent |-> 0, descent |-> 0]
  ELSE [error |-> NoError,
        ascent |-> Scan(ScanCache, pixelData, width[2]).ascent,
        descent |-> Scan(ScanCache, pixelData, width[2]).descent]

\* Get the ascent and descent from the pixel data.
getMetrics(context, dims) ==
  metricsOf(getPixelData(context, dims.width, dims.height), dims.width)

\* What a call leaves when it raises `error` before any canvas exists.
Raised(error, properties) ==
  [error |-> error, value |-> Undefined, properties |-> properties,
   created |-> 0, displayed |-> FALSE, context |-> Undefined,
   fontSize |-> 0, text |-> Undefined,
   metrics |-> Undefined, capHeight |-> 0]

\* displayCanvas(canvas), as the canvas sees it: container.appendChild(canvas)
\* when the container is an element, nothing otherwise.
appendedTo(context, cont) ==
  IF displayCanvas(cont)
  THEN [context EXCEPT !.ops = Append(@, [op |-> "appendChild", to |-> cont])]
  ELSE context

\* measureTextHeight from the marker rectangle on: the rectangle is drawn,
\* the canvas displayed, and the ratio assigned to the properties.
measureMarked(text, properties, fontSize, read, metrics, capHeight, dpr, cont) ==
  [error |-> NoError,
   value |-> lodashAssign(properties,
               RatioKey :> NumDiv(toPx(capHeight, dpr), Num(fontSize))),
   properties |-> lodashAssign(properties,
               RatioKey :> NumDiv(toPx(capHeight, dpr), Num(fontSize))),
   created |-> 1, displayed |-> displayCanvas(cont),
   context |-> appendedTo(
                 ctxFillRect([read EXCEPT !.fillStyle = Str(S_marker)],
                   Num(0), toPx(metrics.ascent, dpr),
                   toPx(read.canvas.width, dpr), toPx(capHeight, dpr)),
                 cont),
   fontSize |-> fontSize, text |-> text,
   metrics |-> [ascent |-> metrics.ascent, descent |-> metrics.descent],
   capHeight |-> capHeight]

\* measureTextHeight from the metrics on; getImageData may have raised.
measureScanned(text, properties, fontSize, read, metrics, dpr, cont) ==
  IF metrics.error # NoError
  THEN [Raised(metrics.error, properties) EXCEPT
          !.created = 1, !.context = read, !.fontSize = fontSize, !.text = text]
  ELSE measureMarked(text, properties, fontSize, read, metrics,
                     getHeight(metrics), dpr, cont)

\* measureTextHeight from the drawn context on: the pixels are read and
\* scanned.
measureDrawn(text, properties, fontSize, context, dpr, cont) ==
  measureScanned(text, properties, fontSize,
                 [context EXCEPT !.ops = Append(@, [op |-> "getImageData"])],
                 getMetrics(context, PhysicalDimensions(text, fontSize, dpr)),
                 dpr, cont)

\* measureTextHeight from the font size on: the font size and the text are
\* checked, then the canvas is created and drawn on.
measureSized(text, properties, fontSize, dpr, bk, cont) ==
  IF fontSize.error # NoError THEN Raised(fontSize.error, properties)
  ELSE IF hasWhitespace(text) THEN Raised(WhitespaceError, properties)
  ELSE measureDrawn(text, properties, fontSize.value,
                    DrawnContext(text, properties, fontSize.value, dpr, bk),
                    dpr, cont)

\* Measure the height of the given text with the specified font properties,
\* text defaulting to 'H'.  `properties` is the caller's object: _.assign
\* writes the ratio into it.
measureTextHeight(textArg, properties, dpr, bk, cont) ==
  measureSized(IF textArg = Undefined THEN Str(S_H) ELSE textArg, properties,
               getFontSize(properties), dpr, bk, cont)

\* What a call leaves when the record it measured is the defaults record.
intoDefaults(out) == [defaults |-> out.properties] @@ out

\* A faulty calculate that merges the properties into the defaults record
\* of the module, as _.merge(defaults, properties) does.
calculateIntoDefaults(properties, textArg, dflts, dpr, bk, cont) ==
  intoDefaults(measureTextHeight(IF textArg = Undefined THEN Str(S_H) ELSE textArg,
                                 lodashAssign(dflts, properties), dpr, bk, cont))

\* Calculate the cap height: _(properties).defaults(defaults)
\* .thru(_.partial(measureTextHeight, text)).value(), text defaulting to 'H'.
\* _.defaults writes into `properties` and leaves its source, the defaults
\* record of the module, as it was.
calculate(properties, textArg, dflts, dpr, bk, cont) ==
  [defaults |-> dflts] @@
  measureTextHeight(IF textArg = Undefined THEN Str(S_H) ELSE textArg,
                    lodashDefaults(properties, dflts), dpr, bk, cont)

\* A faulty listener that gives the callback a value whatever happened.
thruCallbackAlways(out) == [out |-> out, callbacks |-> <<out.value>>]

\* What the listener does with what calculate returned: the callback is
\* given the value; when calculate raised, the callback is not reached.
thruCallback(out) ==
  [out |-> out,
   callbacks |-> IF out.error = NoError THEN <<out.value>> ELSE <<>>]

\* A faulty listener that forgets the font-family of the event.
fontActiveListenerDecodedOnly(text, familyName, parsed, dflts, dpr, bk, cont) ==
  thruCallback(calculate(parsed, text, dflts, dpr, bk, cont))

\* The listener fontActive(callback, text) returns, on the event
\* (familyName, fvd): the parsed fvd gets the font-family, calculate runs,
\* and the callback is given what it returns.
fontActiveListener(text, familyName, parsed, dflts, dpr, bk, cont) ==
  thruCallback(calculate(lodashSet(parsed, "font-family", familyName), text,
                         dflts, dpr, bk, cont))

\* inspect(element, text): the computed style of the element, picked down
\* to the keys of the defaults, is given to calculate.
inspect(style, text, dflts, dpr, bk, cont) ==
  calculate(lodashPick(style, RecognizedKeys), text, dflts, dpr, bk, cont)

----------------------------------------------------------------------------
(* The module as a state machine *)

\* No measuring call was made yet.
NoCall ==
  [op |-> "none", given |-> Undefined, properties |-> <<>>, text |-> Undefined,
   out |-> Raised(NoError, <<>>), callbacks |-> <<>>, canvas |-> 0,
   container |-> Undefined]

\* getFontSize and the scanner are not being looked at on their own.
FontSizeIdle ==
  /\ fsIn = <<>>
  /\ fsOut = [done |-> FALSE]

ScanIdle ==
  /\ scanIn = [pixelData |-> ArrayData(<<>>), width |-> 0]
  /\ scanOut = [done |-> FALSE]

PureIdle == FontSizeIdle /\ ScanIdle

\* The module is loaded: `let container;`, the defaults record, no canvas.
Loaded ==
  /\ container = Undefined
  /\ defaults = DefaultProperties
  /\ children = [e \in Elements |-> <<>>]
  /\ ncanvas = 0
  /\ ncalls = 0
  /\ last = NoCall

Init ==
  /\ DPR \in {Num(d) : d \in 1..MaxDPR}
  /\ backend \in Backends
  /\ Loaded
  /\ PureIdle

\* A measuring call ends: the canvas it created is numbered, it is appended
\* to the container when displayCanvas found an element there, and the call
\* is remembered: what the operation was given, the record and the text
\* calculate was given, and what came of it.  The container is left as it is.
Finish(op, given, properties, text, r) ==
  /\ last' = [op |-> op, given |-> given, properties |-> properties,
              text |-> text,
              out |-> r.out, callbacks |-> r.callbacks,
              canvas |-> IF r.out.created = 1 THEN ncanvas + 1 ELSE 0,
              container |-> container]
  /\ ncanvas' = ncanvas + r.out.created
  /\ children' = IF r.out.displayed
                 THEN [children EXCEPT ![container[2]] = Append(@, ncanvas + 1)]
                 ELSE children
  /\ defaults' = r.out.defaults
  /\ ncalls' = ncalls + 1
  /\ UNCHANGED <<DPR, backend, container, fsIn, fsOut, scanIn, scanOut>>

\* capHeight.calculate(properties, text)
Calculate ==
  /\ ncalls < MaxCalls
  /\ \E in \in CalcInputs :
       Finish("calculate", in[1], in[1], in[2],
              [out |-> calculate(in[1], in[2], defaults, DPR, backend, container),
               callbacks |-> <<>>])

\* The Web Font Loader fires fontactive on a listener made by
\* capHeight.fontActive(callback, text).
FontActive ==
  /\ ncalls < MaxCalls
  /\ \E parsed \in ParsedFvds, familyName \in FamilyNames, text \in ListenerTexts :
       Finish("fontActive", [familyName |-> familyName, parsed |-> parsed],
              lodashSet(parsed, "font-family", familyName), text,
              fontActiveListener(text, familyName, parsed, defaults, DPR,
                                 backend, container))

\* capHeight.inspect(element, text)
Inspect ==
  /\ ncalls < MaxCalls
  /\ \E style \in ComputedStyles, text \in ListenerTexts :
       Finish("inspect", style, lodashPick(style, RecognizedKeys), text,
              [out |-> inspect(style, text, defaults, DPR, backend, container),
               callbacks |-> <<>>])

\* capHeight.setContainer(element)
SetContainer ==
  /\ \E element \in ContainerValues : container' = element
  /\ UNCHANGED <<DPR, backend, defaults, children, ncanvas, ncalls, last,
                 fsIn, fsOut, scanIn, scanOut>>

Next == Calculate \/ FontActive \/ Inspect \/ SetContainer

Spec == Init /\ [][Next]_vars

----------------------------------------------------------------------------
(* The module in a window that has no devicePixelRatio *)

InitNoDPR ==
  /\ DPR = Undefined
  /\ backend \in Backends
  /\ Loaded
  /\ PureIdle

SpecNoDPR == InitNoDPR /\ [][Next]_vars

----------------------------------------------------------------------------
(* getFontSize on its own *)

InitFontSize ==
  /\ DPR = Num(1)
  /\ backend \in Backends
  /\ Loaded
  /\ fsIn \in FontSizeInputs
  /\ fsOut = [done |-> FALSE]
  /\ ScanIdle

\* getFontSize(properties), in release 2.0.0 and in release 1.1.0.
GetFontSize ==
  /\ ~fsOut.done
  /\ fsOut' = [done |-> TRUE, v2 |-> getFontSize(fsIn),
               v1 |-> getFontSize_v1(fsIn)]
  /\ UNCHANGED <<DPR, backend, container, defaults, children, ncanvas, ncalls,
                 last, fsIn, scanIn, scanOut>>

NextFontSize == GetFontSize

SpecFontSize == InitFontSize /\ [][NextFontSize]_vars

----------------------------------------------------------------------------
(* The scanner on its own *)

InitScan ==
  /\ DPR = Num(1)
  /\ backend \in Backends
  /\ Loaded
  /\ FontSizeIdle
  /\ scanIn \in ScanInputs
  /\ scanOut = [done |-> FALSE]

\* The ascent, the descent and the height the scanner gives for a buffer.
ScanOf(ascent, descent, height) ==
  [ascent |-> ascent, descent |-> descent, height |-> height]

\* getAscent, getDescent and getHeight on the buffer, in the releases 2.0.0,
\* 1.1.0 and 1.0.0.
ScanBuffer ==
  /\ ~scanOut.done
  /\ scanOut' =
       [done |-> TRUE,
        v2 |-> ScanOf(getAscent(scanIn.pixelData, scanIn.width),
                      getDescent(scanIn.pixelData, scanIn.width),
                      getHeight([ascent |-> getAscent(scanIn.pixelData, scanIn.width),
                                 descent |-> getDescent(scanIn.pixelData, scanIn.width)])),
        v1 |-> ScanOf(getAscent_v1(scanIn.pixelData, scanIn.width),
                      getDescent_v1(scanIn.pixelData, scanIn.width),
                      getHeight_v1(getDescent_v1(scanIn.pixelData, scanIn.width),
                                   getAscent_v1(scanIn.pixelData, scanIn.width))),
        v0 |-> ScanOf(getAscent_v0(scanIn.pixelData, scanIn.width),
                      getDescent_v0(scanIn.pixelData, scanIn.width),
                      getHeight_v0(getDescent_v0(scanIn.pixelData, scanIn.width),
                                   getAscent_v0(scanIn.pixelData, scanIn.width)))]
  /\ UNCHANGED <<DPR, backend, container, defaults, children, ncanvas, ncalls,
                 last, fsIn, fsOut, scanIn>>

NextScan == ScanBuffer

SpecScan == InitScan /\ [][NextScan]_vars

----------------------------------------------------------------------------
(* Properties *)

\* A measuring call was made, and the last one returned.
Succeeded == last.op # "none" /\ last.out.error = NoError

\* The errors getFontSize raises.
FontSizeErrors == {InvalidFontSizeError, ZeroFontSizeError}

\* The value of each key the defaults record of the documentation gives.
DocumentedDefault(k) ==
  CASE k = "font-style" -> Str(<<"n", "o", "r", "m", "a", "l">>)
    [] k = "font-weight" -> Num(400)
    [] k = "font-size" -> Str(<<"1", "0", "0", "p", "x">>)
    [] k = "font-family" -> Str(<<"s", "e", "r", "i", "f">>)

RecognizedKeySet == {"font-style", "font-weight", "font-size", "font-family"}

\* What a returned record holds besides the keys it was passed: the
\* defaults of the recognized keys left undefined, and a numeric ratio field
\* as the one key more.
DefaultsAndRatio ==
  /\ \A k \in RecognizedKeySet :
       (k \notin DOMAIN last.properties \/ last.properties[k] = Undefined)
         => last.out.value[k] = DocumentedDefault(k)
  /\ RatioKey \in DOMAIN last.out.value
  /\ IsNum(last.out.value[RatioKey])
  /\ DOMAIN last.out.value =
       DOMAIN last.properties \cup RecognizedKeySet \cup {RatioKey}

\* C1, as it is stated: whenever calculate returns, the returned record
\* holds every key of the passed record with its passed value, the default
\* of each recognized key the passed record did not define, and one numeric
\* ratio field more.
C1_EveryPassedKeyKept ==
  Succeeded =>
    /\ \A k \in DOMAIN last.properties :
         k \in DOMAIN last.out.value /\ last.out.value[k] = last.properties[k]
    /\ DefaultsAndRatio

\* C1, amended: whenever calculate returns, the returned record holds every
\* key of the passed record other than the ratio key, and not passed as
\* undefined, with its passed value; the default of each recognized key the
\* passed record left undefined; and the ratio key with the numeric ratio of
\* this call, whatever value the passed record had under it.
C1_PassedKeysKeptButRatio ==
  Succeeded =>
    /\ \A k \in DOMAIN last.properties \ {RatioKey} :
         last.properties[k] # Undefined =>
           k \in DOMAIN last.out.value /\ last.out.value[k] = last.properties[k]
    /\ DefaultsAndRatio

\* A call returned for a record that already had a ratio field, with another
\* ratio in it.
C1_Witness ==
  /\ Succeeded
  /\ RatioKey \in DOMAIN last.properties
  /\ last.out.value[RatioKey] # last.properties[RatioKey]
  /\ last.out.value["font-family"] = DocumentedDefault("font-family")

----------------------------------------------------------------------------

Min(S) == CHOOSE x \in S : \A y \in S : x <= y

Max(S) == CHOOSE x \in S : \A y \in S : y <= x

\* The rows of the scanned buffer.
ScanRows == 0..((scanIn.pixelData.length \div (4 * scanIn.width)) - 1)

\* The rows that hold a channel value under 255 * 0.75.
RowsUnderThreshold ==
  { r \in ScanRows :
      \E c \in 1..(4 * scanIn.width) :
        4 * scanIn.pixelData.data[r * 4 * scanIn.width + c] < 3 * 255 }

\* The rows that hold a channel value 0.
RowsWithBlack ==
  { r \in ScanRows :
      \E c \in 1..(4 * scanIn.width) :
        scanIn.pixelData.data[r * 4 * scanIn.width + c] = 0 }

\* The scan gives the first and the last of the rows, and their number.
ScanGives(out, rows) ==
  rows # {} =>
    /\ out.ascent = Min(rows)
    /\ out.descent = Max(rows)
    /\ 0 <= out.ascent /\ out.ascent <= out.descent
    /\ out.descent <= Max(ScanRows)
    /\ out.height = out.descent - out.ascent + 1

\* C2: for every pixel buffer of row width W with at least one foreground
\* channel value, the scanner returns as ascent the smallest row that holds
\* a foreground channel and as descent the largest, 0 <= ascent <= descent
\* <= last row, and the height is descent - ascent + 1; foreground is a
\* value under the threshold in release 2.0.0 and the value 0 in 1.1.0.
C2_ScanRowBounds ==
  scanOut.done =>
    /\ ScanGives(scanOut.v2, RowsUnderThreshold)
    /\ ScanGives(scanOut.v1, RowsWithBlack)

\* A buffer of three rows and two columns whose foreground is exactly the
\* rows 1..2 was scanned.
C2_Witness ==
  /\ scanOut.done
  /\ scanIn.width = 2
  /\ ScanRows = 0..2
  /\ RowsUnderThreshold = {1, 2}
  /\ scanOut.v2.ascent = 1
  /\ scanOut.v2.height = 2

----------------------------------------------------------------------------

\* C3: whenever calculate returns a ratio, it is
\* ((descent - ascent + 1) / devicePixelRatio) / fontSize, and above 0.
C3_RatioFormula ==
  Succeeded =>
    /\ IsNum(last.out.value[RatioKey])
    /\ last.out.value[RatioKey][3] > 0
    /\ last.out.value[RatioKey][2] * DPR[2] * last.out.fontSize =
         (last.out.metrics.descent - last.out.metrics.ascent + 1) *
         last.out.value[RatioKey][3]
    /\ last.out.value[RatioKey][2] > 0
    /\ last.out.fontSize > 0

\* A ratio was returned at the device pixel ratio 2 for a glyph of several
\* rows.
C3_Witness ==
  /\ Succeeded
  /\ DPR = Num(2)
  /\ last.out.metrics.ascent > 0
  /\ last.out.metrics.descent > last.out.metrics.ascent

----------------------------------------------------------------------------

RECURSIVE OnlyDigits(_)
\* The characters 0..9 of a string, in their order.
OnlyDigits(chars) ==
  IF chars = <<>> THEN <<>>
  ELSE (IF Head(chars) \in {"0", "1", "2", "3", "4", "5", "6", "7", "8", "9"}
        THEN <<Head(chars)>> ELSE <<>>) \o OnlyDigits(Tail(chars))

DigitValue ==
  ("0" :> 0) @@ ("1" :> 1) @@ ("2" :> 2) @@ ("3" :> 3) @@ ("4" :> 4) @@
  ("5" :> 5) @@ ("6" :> 6) @@ ("7" :> 7) @@ ("8" :> 8) @@ ("9" :> 9)

RECURSIVE Written(_)
\* The number a string of digits writes.
Written(digits) ==
  IF digits = <<>> THEN 0
  ELSE DigitValue[Head(digits)] * 10 ^ (Len(digits) - 1) + Written(Tail(digits))

\* The characters of the font-size of a record; a record without one
\* stands for the font-size 0.
FontSizeText(properties) ==
  IF "font-size" \in DOMAIN properties /\ properties["font-size"] # Undefined
  THEN ToStr(properties["font-size"])
  ELSE <<"0">>

\* What getFontSize is to give for the record it was given.
FontSizeGives(out) ==
  /\ out.error = NoError <=>
       (OnlyDigits(FontSizeText(fsIn)) # <<>> /\
        Written(OnlyDigits(FontSizeText(fsIn))) # 0)
  /\ out.error = NoError =>
       out.value = Written(OnlyDigits(FontSizeText(fsIn))) /\ out.value # 0
  /\ out.error # NoError => out.error.name = "RangeError"

----------------------------------------------------------------------------

\* The text given to a call holds a whitespace character.
TextHasWhitespace ==
  /\ last.text # Undefined
  /\ \E i \in DOMAIN last.text[2] : last.text[2][i] \in {" ", "\t", "\n"}

\* C5: for a valid font-size, the call raises the whitespace RangeError for
\* every text that holds a whitespace character at any position, and for no
\* other text.
C5_WhitespaceRejected ==
  (last.op # "none" /\ last.out.error \notin FontSizeErrors) =>
    /\ last.out.error = WhitespaceError <=> TextHasWhitespace
    /\ WhitespaceError.name = "RangeError"

\* A text whose whitespace is not its first character was rejected.
C5_Witness ==
  /\ last.op = "calculate"
  /\ last.text = Str(<<"H", "\n">>)
  /\ last.out.error = WhitespaceError

----------------------------------------------------------------------------

\* C6: when a call aborts on the font-size or on whitespace, the error is
\* what the caller gets: nothing is returned, no ratio field was written to
\* the record of the caller, no canvas was created or appended to the
\* container, and the callback of a fontActive listener was not called.
C6_AbortLeavesNothing ==
  [][ (ncalls' = ncalls + 1 /\
       last'.out.error \in FontSizeErrors \cup {WhitespaceError}) =>
        /\ last'.out.value = Undefined
        /\ RatioKey \in DOMAIN last'.out.properties =>
             /\ RatioKey \in DOMAIN last'.properties
             /\ last'.out.properties[RatioKey] = last'.properties[RatioKey]
        /\ ncanvas' = ncanvas
        /\ children' = children
        /\ last'.canvas = 0
        /\ last'.callbacks = <<>> ]_vars

\* A fontActive listener aborted on whitespace while an element was the
\* container.
C6_Witness ==
  /\ last.op = "fontActive"
  /\ last.out.error = WhitespaceError
  /\ isElement(last.container)
  /\ last.callbacks = <<>>

----------------------------------------------------------------------------

\* C7, as it is stated: a call of calculate without a text, or with the
\* empty text, ends as the call with the text "H" does, with the same
\* record and ratio, for every valid record.
C7_EmptyTextMeasuredAsH ==
  (/\ last.op = "calculate"
   /\ last.text \in {Undefined, Str(<<>>)}
   /\ last.out.error \notin FontSizeErrors) =>
    /\ last.out.error =
         calculate(last.properties, Str(<<"H">>), defaults, DPR, backend,
                   last.container).error
    /\ last.out.value =
         calculate(last.properties, Str(<<"H">>), defaults, DPR, backend,
                   last.container).value

----------------------------------------------------------------------------

\* C8, as it is stated: whenever calculate returns, the pixel size of the
\* font set on the drawing context is the extracted font size, which sized
\* the canvas and divides the ratio.
C8_FontSizeInPixels ==
  Succeeded => last.out.context.fontPx = last.out.fontSize

----------------------------------------------------------------------------

----------------------------------------------------------------------------

\* C10: whatever calls came before, a call ends as it does in a module
\* just loaded, with the same ratio: the container is the only thing a call
\* leaves behind that the module reads, and the defaults record of the
\* module is never changed.
C10_CallsIndependent ==
  /\ defaults = DefaultProperties
  /\ last.op # "none" =>
       /\ calculate(last.properties, last.text, DefaultProperties, DPR,
                    backend, Undefined).error = last.out.error
       /\ calculate(last.properties, last.text, DefaultProperties, DPR,
                    backend, Undefined).value = last.out.value

\* A second call returned after a first one had created a canvas, with an
\* element as the container.
C10_Witness ==
  /\ ncalls = 2
  /\ last.op = "calculate"
  /\ last.out.error = NoError
  /\ last.canvas = 2
  /\ isElement(container)
  /\ children[container[2]] # <<>>

----------------------------------------------------------------------------

\* The canvases appended to the elements of the page.
Appended == UNION { {children[e][i] : i \in DOMAIN children[e]} : e \in Elements }

\* C11: a measuring call that returns appends its canvas exactly once, to
\* the container the last setContainer registered, when that container is
\* an element; with any other container (none registered, null, a value
\* that is no element) it appends nothing and still returns; a call that
\* raises appends nothing; setContainer appends nothing.
C11_DisplayedInContainer ==
  [][ /\ ncalls' = ncalls =>
           /\ children' = children
           /\ container' \in {Undefined, Null, PlainObject} \/ container'[1] = "element"
      /\ ncalls' = ncalls + 1 =>
           /\ container' = container
           /\ last'.container = container
           /\ IF last'.out.error = NoError /\ container[1] = "element"
              THEN /\ last'.canvas \notin Appended
                   /\ children' = [children EXCEPT
                                     ![container[2]] = Append(@, last'.canvas)]
              ELSE children' = children
           /\ last'.out.displayed = (last'.out.error = NoError /\
                                     container[1] = "element") ]_vars

\* Two calls returned, the first with one element as the container and the
\* second after setContainer had registered the other element.
C11_Witness ==
  /\ ncalls = 2
  /\ container = Element("div")
  /\ children = [e \in Elements |-> IF e = "body" THEN <<1>> ELSE <<2>>]
  /\ last.out.error = NoError

\* A call returned and appended nothing while null was the container.
C11_WitnessNull ==
  /\ last.out.error = NoError
  /\ last.op = "calculate"
  /\ last.container = Null
  /\ Appended = {}

----------------------------------------------------------------------------

\* The record a listener is to measure for the event it was given: the
\* decoded description with the family name of the event as its font-family.
EventRecord ==
  [k \in DOMAIN last.given.parsed \cup {"font-family"} |->
     IF k = "font-family" THEN last.given.familyName ELSE last.given.parsed[k]]

\* C12: for each event given to a listener made by fontActive(callback,
\* text), the decoded description gets the family name of the event as its
\* font-family, calculate is run on that record with the text given to
\* fontActive, and the callback is called once, with the record calculate
\* returned (the record holding the ratio, so not before calculate has
\* ended); when calculate raises, the callback is not called.
C12_ListenerForwards ==
  last.op = "fontActive" =>
    /\ last.properties = EventRecord
    /\ last.out.error =
         calculate(EventRecord, last.text, defaults, DPR, backend,
                   last.container).error
    /\ last.out.value =
         calculate(EventRecord, last.text, defaults, DPR, backend,
                   last.container).value
    /\ IF last.out.error = NoError
       THEN /\ last.callbacks = <<last.out.value>>
            /\ RatioKey \in DOMAIN last.callbacks[1]
            /\ last.callbacks[1]["font-family"] = last.given.familyName
       ELSE last.callbacks = <<>>

\* A listener was given an event for the family Arial, italic at weight 700,
\* and called the callback with the measured record.
C12_Witness ==
  /\ last.op = "fontActive"
  /\ last.given.familyName = Str(<<"A", "r", "i", "a", "l">>)
  /\ last.given.parsed["font-style"] = Str(<<"i", "t", "a", "l", "i", "c">>)
  /\ Len(last.callbacks) = 1
  /\ last.callbacks[1]["font-size"] = Str(<<"1", "0", "0", "p", "x">>)
  /\ IsNum(last.callbacks[1][RatioKey])

----------------------------------------------------------------------------

\* What happened to the canvas of the last call, in its order.
CanvasOps == last.out.context.ops

CanvasOpNames == [i \in DOMAIN CanvasOps |-> CanvasOps[i].op]

\* The picture made by the first n of the things that happened to the canvas.
PictureAfter(n) ==
  getPixelData([last.out.context EXCEPT !.ops = SubSeq(CanvasOps, 1, n)],
               Num(last.out.context.canvas.width),
               Num(last.out.context.canvas.height))

\* C13: in every call that returns, the defaults were filled and the font
\* size and the text validated before a canvas existed; then the context was
\* scaled by the device pixel ratio, the whole canvas filled white, the
\* text painted in black, the pixels read and scanned, and only then the
\* marker rectangle drawn and the canvas displayed: what was scanned is the
\* white background with the text on it.  A call that stops on the font
\* size or on the text has filled the defaults and created no canvas, and
\* one that stops on the text had a valid font size.
C13_StepsInOrder ==
  /\ Succeeded =>
       /\ RecognizedKeySet \subseteq DOMAIN last.out.properties
       /\ Written(OnlyDigits(FontSizeText(last.out.properties))) = last.out.fontSize
       /\ last.out.fontSize # 0
       /\ ~TextHasWhitespace
       /\ last.out.created = 1
       /\ CanvasOpNames \in
            { <<"scale", "fillRect", "fillText", "getImageData", "fillRect">>,
              <<"scale", "fillRect", "fillText", "getImageData", "fillRect",
                "appendChild">> }
       /\ CanvasOps[1].by = DPR
       /\ CanvasOps[2].fillStyle = Str(<<"w", "h", "i", "t", "e">>)
       /\ Painted(CanvasOps[2], backend) =
            [x0 |-> 0, x1 |-> last.out.context.canvas.width - 1,
             y0 |-> 0, y1 |-> last.out.context.canvas.height - 1,
             rgba |-> <<255, 255, 255, 255>>]
       /\ CanvasOps[3].fillStyle = Str(<<"b", "l", "a", "c", "k">>)
       /\ CanvasOps[3].text = last.out.text
       /\ CanvasOps[3].scale = DPR[2]
       /\ CanvasOps[5].fillStyle # Str(<<"w", "h", "i", "t", "e">>)
       /\ (Len(CanvasOps) = 6) = last.out.displayed
       /\ last.out.metrics =
            Scan(ScanCache, PictureAfter(3), last.out.context.canvas.width)
  /\ (last.op # "none" /\ last.out.error \in FontSizeErrors \cup {WhitespaceError}) =>
       /\ RecognizedKeySet \subseteq DOMAIN last.out.properties
       /\ last.out.created = 0
       /\ last.out.error = WhitespaceError =>
            Written(OnlyDigits(FontSizeText(last.out.properties))) # 0

\* A call returned at the device pixel ratio 2 after its canvas was scaled,
\* filled, painted, read, marked and appended to an element.
C13_Witness ==
  /\ Succeeded
  /\ DPR = Num(2)
  /\ Len(CanvasOps) = 6
  /\ CanvasOps[6].to = last.container
  /\ CanvasOps[2].scale = 2
  /\ last.out.metrics.ascent > 0

----------------------------------------------------------------------------

\* The channel values of the scanned buffer.
ScannedValues == { scanIn.pixelData.data[i] : i \in DOMAIN scanIn.pixelData.data }

\* No channel value of the buffer is under the threshold.
NothingUnderThreshold == \A v \in ScannedValues : v * 100 >= 255 * 75

\* No channel value of the buffer is 0.
NothingBlack == 0 \notin ScannedValues

\* A scan that gave no row index and derived no height.
NothingFound(scan) ==
  /\ scan.ascent \notin Int
  /\ scan.descent \notin Int
  /\ scan.height \notin Int

\* C14: when no channel value of the buffer passes the foreground test, the
\* scanner gives no row index for the ascent or for the descent, and no
\* height is derived from them.
C14_NoForegroundNoRows ==
  scanOut.done =>
    /\ NothingUnderThreshold => NothingFound(scanOut.v2)
    /\ NothingBlack => NothingFound(scanOut.v1) /\ NothingFound(scanOut.v0)

----------------------------------------------------------------------------

\* The last call got past the checks of the font size and of the text,
\* with a text that is not empty.
MeasuredSomeText ==
  /\ last.op # "none"
  /\ last.out.created = 1
  /\ Len(last.out.text[2]) > 0

\* C15: where the window defines no device pixel ratio, a call measures
\* as at the device pixel ratio 1: the canvas has the logical dimensions,
\* 2 * fontSize * text.length wide and 2 * fontSize high, the context is at
\* the scale 1, and the ratio returned is the height over the font size.
C15_NoRatioMeasuresAtOne ==
  (DPR = Undefined /\ MeasuredSomeText) =>
    /\ last.out.error = NoError
    /\ last.out.context.canvas.width =
         MULTIPLIER * last.out.fontSize * Len(last.out.text[2])
    /\ last.out.context.canvas.height = MULTIPLIER * last.out.fontSize
    /\ last.out.context.scale = 1
    /\ last.out.value[RatioKey] =
         NumDiv(Num(last.out.capHeight), Num(last.out.fontSize))

----------------------------------------------------------------------------

\* The scanned buffer is a pure raster with some foreground: every channel
\* value is 0 or 255, and one at least is 0.
PureRaster == ScannedValues \subseteq {0, 255} /\ 0 \in ScannedValues

\* C16: on a pure raster, the scanner that looks for the value 0, with
\* the row taken by _.floor (release 1.1.0) or by | 0 (release 1.0.0) and
\* the height descent + 1 - ascent, and the scanner that looks for a value
\* under 255 * 0.75, with the row _.floor((index / 4) / width) and the
\* height descent - ascent + 1 (release 2.0.0), give the same ascent, the
\* same descent and the same height.
C16_ScannersAgreeOnPureRasters ==
  (scanOut.done /\ PureRaster) =>
    /\ scanOut.v2 = scanOut.v1
    /\ scanOut.v1 = scanOut.v0

\* A pure raster of several rows and columns was scanned, its foreground
\* between a white row above and a white row below.
C16_Witness ==
  /\ scanOut.done
  /\ PureRaster
  /\ 255 \in ScannedValues
  /\ scanIn.width >= 2
  /\ scanOut.v2.ascent >= 1
  /\ scanOut.v2.descent * scanIn.width * 4 + scanIn.width * 4 <
       scanIn.pixelData.length
  /\ scanOut.v0.height = scanOut.v0.descent - scanOut.v0.ascent + 1

====
